---- MODULE Spec2Model ----
(***************************************************************************)
(* Model of the agentic ETL pipeline: TransformAgent (code generation,     *)
(* execution and retry), VisualizeAgent, ExtractAgent, LoadAgent and the   *)
(* ETLPipeline orchestrator.                                               *)
(*                                                                         *)
(* Texts (prompts, error messages) are sequences of tokens; Python's None  *)
(* is the string "None".  A table value is "T1" or "T2", a number "Num",   *)
(* a list "List".                                                          *)
(***************************************************************************)
EXTENDS Integers, Sequences, FiniteSets, TLC

VARIABLES
    \* ---- instance state that survives a call
    extracted_data,   \* ExtractAgent.extracted_data: set of [name, run]
    conn,             \* LoadAgent.conn: "None", "open" or "closed"
    warehouse,        \* tables stored in the database file
    files,            \* paths that exist on the filesystem
    runs,             \* number of calls started on the instance (run, or an agent operation)
    \* ---- ETLPipeline.run frame
    pc,               \* position of the caller / of ETLPipeline.run
    args,             \* arguments of the current run
    results,          \* the run record being assembled
    transformed_df,   \* local transformed_df of run
    exc,              \* the exception caught by run's except clause
    failedStage,      \* history: the stage in which exc was raised
    envFault,         \* history: a collaborator failed during this run
    loadCalls,        \* history: adapters invoked during this run
    metadataWrites,   \* history: save_metadata calls for the run record, this run
    \* ---- TransformAgent.iterative_transform frame
    ipc,              \* "idle", "loop", "returned", "raised"
    caller,           \* "none", "direct", "pipeline"
    orig_query,       \* history: user_query as passed by the caller
    user_query,       \* local user_query (augmented attempt over attempt)
    max_iterations,
    attempt,
    last_error,
    itResult,         \* value returned, or message of the terminal error
    intents,          \* history: user_query handed to transform, per call
    outcomes,         \* history: what each transform call returned or raised
    genCalls,         \* history: completion calls made
    execCalls,        \* history: execute_transformation calls made
    \* ---- VisualizeAgent.create_visualization, last direct call
    vizResult,
    vizAttempts,
    \* ---- the last direct call of an agent operation
    lastExec

instVars == <<extracted_data, conn, warehouse, files, runs>>
runVars == <<pc, args, results, transformed_df, exc, failedStage, envFault, loadCalls, metadataWrites>>
runVarsButPc == <<args, results, transformed_df, exc, failedStage, envFault, loadCalls, metadataWrites>>
itVars == <<ipc, caller, orig_query, user_query, max_iterations, attempt,
            last_error, itResult, intents, outcomes, genCalls, execCalls>>
vizVars == <<vizResult, vizAttempts>>
vars == <<instVars, runVars, itVars, vizVars, lastExec>>

None == "None"
NoExec == [op |-> "none"]
NoViz == [kind |-> "none"]

(***************************************************************************)
(* Bounds of the model.                                                    *)
(***************************************************************************)
MaxStmts == 2        \* statements of a generated program (execute called directly)
MaxIterBound == 3    \* largest max_iterations of a direct iterative_transform call
MaxRuns == 2         \* calls made on one ETLPipeline, ExtractAgent or LoadAgent instance

DefaultMaxIterations == 3

\* user queries of direct iterative_transform calls, and of pipeline runs
Queries == {"top drivers", "sum x"}
RunQueries == {"top drivers"}

(***************************************************************************)
(* Generated code.  A program is the sequence of top-level bindings it     *)
(* performs, and the exception it raises (None: it runs to its end).       *)
(***************************************************************************)
Tables == {"T1", "T2"}
Values == {None, "Num", "List"} \cup Tables
Names == {"result_df", "df", "out", "_tmp", "dataframes", "pd"}
UnderscoreNames == {"_tmp", "__builtins__"}
ExecErrors == {"KeyError: 'x'"}
GenErrors == {"GenerationError"}

IsTable(v) == v \in Tables
\* len(v) is defined for tables and lists, not for numbers
HasLen(v) == v \in Tables \cup {"List"}
\* v.shape and v.columns exist for tables only
HasShape(v) == v \in Tables
StartsWithUnderscore(n) == n \in UnderscoreNames

Stmt == [name : Names, val : Values]

RECURSIVE SeqsUpTo(_, _)
SeqsUpTo(S, n) ==
    IF n = 0 THEN {<<>>}
    ELSE LET shorter == SeqsUpTo(S, n - 1)
         IN  shorter \cup {Append(s, x) : s \in {t \in shorter : Len(t) = n - 1}, x \in S}

Programs(n) == [stmts : SeqsUpTo(Stmt, n), raises : {None} \cup ExecErrors]

\* What a completion call followed by sanitizing can hand to execute: the text
\* 'result_df' may occur in a comment, so any binding sequence is possible.
GeneratedCodes == Programs(1)

\* the generated code of pipeline runs: it binds result_df to a table or to a
\* list, and runs to its end or raises
RunCodes ==
    {c \in GeneratedCodes :
        \E v \in {"T1", "List"} : c.stmts = <<[name |-> "result_df", val |-> v]>>}

CodesFor(who) == IF who = "pipeline" THEN RunCodes ELSE GeneratedCodes

(***************************************************************************)
(* Execution namespace: an insertion-ordered mapping, as a sequence of     *)
(* [name, val]; rebinding a name keeps its position.                       *)
(***************************************************************************)
Lookup(ns, n) ==
    IF \E i \in DOMAIN ns : ns[i].name = n
    THEN (ns[CHOOSE i \in DOMAIN ns : ns[i].name = n]).val
    ELSE None

Bind(ns, n, v) ==
    IF \E i \in DOMAIN ns : ns[i].name = n
    THEN [i \in DOMAIN ns |-> IF ns[i].name = n THEN [name |-> n, val |-> v] ELSE ns[i]]
    ELSE Append(ns, [name |-> n, val |-> v])

\* exec_globals as built before exec; exec itself inserts __builtins__
InitialGlobals ==
    << [name |-> "pd", val |-> "Module"],
       [name |-> "dataframes", val |-> "Dict"],
       [name |-> "result_df", val |-> None],
       [name |-> "np", val |-> "Module"],
       [name |-> "__builtins__", val |-> "Dict"] >>

RECURSIVE RunStmts(_, _)
RunStmts(ns, stmts) ==
    IF stmts = <<>> THEN ns
    ELSE RunStmts(Bind(ns, Head(stmts).name, Head(stmts).val), Tail(stmts))

Return(v) == [kind |-> "return", value |-> v]
Raise(e) == [kind |-> "raise", err |-> e]

\* outcomes of a generate_*_code call: the completion call raises, or code comes back
GenOutcomes(codes) == {Raise(e) : e \in GenErrors} \cup {Return(c) : c \in codes}

NoResultError == "Transformation code did not produce 'result_df' or any other DataFrame"
LenTypeError == "TypeError: object has no len()"

\* the implicit candidates, in namespace order
Candidates(ns) ==
    SelectSeq(ns, LAMBDA b : /\ IsTable(b.val)
                             /\ b.name \notin {"pd", "dataframes"}
                             /\ ~StartsWithUnderscore(b.name))

CandidatesFirst(ns) ==
    LET candidates == Candidates(ns)
    IN  IF candidates # <<>> THEN candidates[Len(candidates)].val
        ELSE Lookup(ns, "result_df")

RecoverFirstCandidate(ns) ==
    LET result_df == Lookup(ns, "result_df")
        candidates == Candidates(ns)
    IN  IF result_df = None /\ candidates # <<>>
        THEN candidates[1].val
        ELSE result_df

\* result recovery: the explicit binding, else the last candidate, else None
RecoverResult(ns) ==
    LET result_df == Lookup(ns, "result_df")
        candidates == Candidates(ns)
    IN  IF result_df = None /\ candidates # <<>>
        THEN candidates[Len(candidates)].val
        ELSE result_df

ExceptSwallow(e) == Return([failure |-> e])

\* the except clause of the execute operations: log, then re-raise
ExceptExecute(e) == Raise(e)

\* execute_transformation: [out: returned value or raised error, globals: final namespace]
execute_transformation(code) ==
    LET ns == RunStmts(InitialGlobals, code.stmts)
        result_df == RecoverResult(ns)
    IN  IF code.raises # None
        THEN [out |-> ExceptExecute(code.raises), globals |-> <<>>]
        ELSE IF result_df = None
        THEN [out |-> ExceptExecute(NoResultError), globals |-> ns]
        ELSE IF ~HasLen(result_df)
        THEN [out |-> ExceptExecute(LenTypeError), globals |-> ns]
        ELSE [out |-> Return(result_df), globals |-> ns]

(***************************************************************************)
(* Visualization code: what it saves before it ends or raises.             *)
(*   "literal":  savefig with the quoted literal 'output/visualization.png'*)
(*               (rewritten to output_path before exec)                    *)
(*   "fallback": saves to output/visualization.png spelled another way     *)
(*   "none":     saves nothing                                             *)
(***************************************************************************)
AltPath == "output/visualization.png"
MetadataPath == "pipeline_metadata.json"
OutputPaths == {AltPath, "out2/visualization.png"}
VizCodes == [saves : {"literal", "fallback", "none"}, raises : {None} \cup ExecErrors]

\* the filesystem after exec(code) with the literal path replaced by output_path
ExecViz(code, output_path, fs) ==
    CASE code.saves = "literal" -> fs \cup {output_path}
      [] code.saves = "fallback" -> fs \cup {AltPath}
      [] OTHER -> fs

\* execute_visualization: [out, files]
execute_visualization(code, output_path, fs) ==
    LET fs1 == ExecViz(code, output_path, fs)
        fs2 == IF output_path \notin fs1 /\ AltPath \in fs1
               THEN (fs1 \ {AltPath}) \cup {output_path}
               ELSE fs1
    IN  IF code.raises # None
        THEN [out |-> ExceptExecute(code.raises), files |-> fs1]
        ELSE [out |-> Return(output_path), files |-> fs2]

\* generate_visualization_code: one completion call; its failure is re-raised
\* create_visualization: generate, then execute, once
create_visualization(gen, output_path, fs) ==
    IF gen.kind = "raise"
    THEN [out |-> Raise(gen.err), files |-> fs, attempts |-> 1]
    ELSE [out |-> execute_visualization(gen.value, output_path, fs).out,
          files |-> execute_visualization(gen.value, output_path, fs).files,
          attempts |-> 1]

(***************************************************************************)
(* TransformAgent.transform: one synthesize-sanitize-execute cycle.        *)
(* gen is the outcome of generate_transformation_code: Raise(e) when the   *)
(* completion call raised, Return(code) with the code it returned.         *)
(***************************************************************************)
transform(gen) ==
    IF gen.kind = "raise"
    THEN [out |-> Raise(gen.err), executed |-> FALSE]
    ELSE [out |-> execute_transformation(gen.value).out, executed |-> TRUE]

\* str(e) for the exceptions of an attempt
Str(e) == e

AugmentFromOriginal(uq, e) ==
    <<uq[1]>> \o <<"\n\nPrevious attempt failed with error: ", Str(e), ". Please fix the code.">>

\* f"{user_query}\n\nPrevious attempt failed with error: {str(e)}. Please fix the code."
AugmentQuery(uq, e) ==
    uq \o <<"\n\nPrevious attempt failed with error: ", Str(e), ". Please fix the code.">>

\* f"Transformation failed after {max_iterations} attempts. Last error: {last_error}"
TerminalMessage(n, e) ==
    <<"Transformation failed after ", ToString(n), " attempts. Last error: ", Str(e)>>

RangeInclusive(k, n) == k <= n

RangeAtLeastOnce(k, n) == k < n \/ k = 0

\* for attempt in range(max_iterations)
InRange(k, n) == k < n

\* if attempt < max_iterations - 1
ShouldAugment(k, n) == k < n - 1

AfterSuccessContinue == "loop"

\* return result_df: the call ends with the first success
AfterSuccess == "returned"

KeepFirstError(old, e) == IF old = None THEN e ELSE old

\* last_error = e
RecordError(old, e) == e

ItIdle ==
    /\ ipc = "idle" /\ caller = "none" /\ orig_query = None /\ user_query = <<>>
    /\ max_iterations = 0 /\ attempt = 0 /\ last_error = None /\ itResult = None
    /\ intents = <<>> /\ outcomes = <<>> /\ genCalls = 0 /\ execCalls = 0

\* entry of iterative_transform(user_query, dataframes, max_iterations)
ItEnter(who, q, n) ==
    /\ ipc' = "loop"
    /\ caller' = who
    /\ orig_query' = q
    /\ user_query' = <<q>>
    /\ max_iterations' = n
    /\ attempt' = 0
    /\ last_error' = None
    /\ itResult' = None
    /\ intents' = <<>>
    /\ outcomes' = <<>>
    /\ genCalls' = 0
    /\ execCalls' = 0

ItLeave ==
    /\ ipc' = "idle" /\ caller' = "none" /\ orig_query' = None /\ user_query' = <<>>
    /\ max_iterations' = 0 /\ attempt' = 0 /\ last_error' = None /\ itResult' = None
    /\ intents' = <<>> /\ outcomes' = <<>> /\ genCalls' = 0 /\ execCalls' = 0

\* one iteration of the for loop: try transform, return or handle the exception
iterative_transform_attempt ==
    /\ ipc = "loop"
    /\ InRange(attempt, max_iterations)
    /\ \E gen \in GenOutcomes(CodesFor(caller)) :
        LET t == transform(gen)
        IN  /\ intents' = Append(intents, user_query)
            /\ outcomes' = Append(outcomes, t.out)
            /\ genCalls' = genCalls + 1
            /\ execCalls' = IF t.executed THEN execCalls + 1 ELSE execCalls
            /\ envFault' = (envFault \/ t.out.kind = "raise")
            /\ IF t.out.kind = "return"
               THEN /\ ipc' = AfterSuccess
                    /\ itResult' = t.out.value
                    /\ UNCHANGED <<user_query, attempt, last_error>>
               ELSE /\ last_error' = RecordError(last_error, t.out.err)
                    /\ user_query' = IF ShouldAugment(attempt, max_iterations)
                                     THEN AugmentQuery(user_query, t.out.err)
                                     ELSE user_query
                    /\ attempt' = attempt + 1
                    /\ UNCHANGED <<ipc, itResult>>
    /\ UNCHANGED <<caller, orig_query, max_iterations, instVars, vizVars, lastExec>>
    /\ UNCHANGED <<pc, args, results, transformed_df, exc, failedStage, loadCalls, metadataWrites>>

\* the loop is over without a return: raise the terminal error
iterative_transform_exhausted ==
    /\ ipc = "loop"
    /\ ~InRange(attempt, max_iterations)
    /\ ipc' = "raised"
    /\ itResult' = TerminalMessage(max_iterations, last_error)
    /\ UNCHANGED <<caller, orig_query, user_query, max_iterations, attempt, last_error,
                   intents, outcomes, genCalls, execCalls>>
    /\ UNCHANGED <<instVars, runVars, vizVars, lastExec>>

\* a direct call of iterative_transform, any max_iterations
iterative_transform_call ==
    /\ pc = "idle" /\ ipc = "idle"
    /\ \E q \in Queries, n \in (0 - 1)..MaxIterBound : ItEnter("direct", q, n)
    /\ pc' = "direct"
    /\ UNCHANGED <<args, results, transformed_df, exc, failedStage, envFault, loadCalls, metadataWrites>>
    /\ UNCHANGED <<instVars, vizVars, lastExec>>

\* the direct caller takes the outcome
iterative_transform_done ==
    /\ pc = "direct" /\ caller = "direct" /\ ipc \in {"returned", "raised"}
    /\ ItLeave
    /\ pc' = "idle"
    /\ envFault' = FALSE
    /\ UNCHANGED <<args, results, transformed_df, exc, failedStage, loadCalls, metadataWrites>>
    /\ UNCHANGED <<instVars, vizVars, lastExec>>

\* a direct call of create_visualization
create_visualization_call ==
    /\ pc = "idle"
    /\ \E gen \in GenOutcomes(VizCodes), p \in OutputPaths :
        LET r == create_visualization(gen, p, files)
        IN  /\ vizResult' = r.out
            /\ vizAttempts' = r.attempts
            /\ files' = r.files
    /\ pc' = "called"
    /\ UNCHANGED <<args, results, transformed_df, exc, failedStage, envFault, loadCalls, metadataWrites>>
    /\ UNCHANGED <<extracted_data, conn, warehouse, runs, itVars, lastExec>>

\* a direct call of execute_transformation
execute_transformation_call ==
    /\ pc = "idle"
    /\ \E code \in Programs(MaxStmts) :
        LET r == execute_transformation(code)
        IN  lastExec' = [op |-> "transform", code |-> code, out |-> r.out,
                         globals |-> r.globals]
    /\ pc' = "called"
    /\ UNCHANGED <<args, results, transformed_df, exc, failedStage, envFault, loadCalls, metadataWrites>>
    /\ UNCHANGED <<instVars, itVars, vizVars>>

\* a direct call of execute_visualization
execute_visualization_call ==
    /\ pc = "idle"
    /\ \E code \in VizCodes, p \in OutputPaths :
        LET r == execute_visualization(code, p, files)
        IN  /\ lastExec' = [op |-> "visualize", code |-> code, out |-> r.out,
                            output_path |-> p]
            /\ files' = r.files
    /\ pc' = "called"
    /\ UNCHANGED <<args, results, transformed_df, exc, failedStage, envFault, loadCalls, metadataWrites>>
    /\ UNCHANGED <<extracted_data, conn, warehouse, runs, itVars, vizVars>>

\* the direct caller takes the outcome of an execute or create_visualization call
direct_return ==
    /\ pc = "called"
    /\ pc' = "idle"
    /\ lastExec' = NoExec
    /\ vizResult' = NoViz
    /\ vizAttempts' = 0
    /\ UNCHANGED <<args, results, transformed_df, exc, failedStage, envFault, loadCalls, metadataWrites>>
    /\ UNCHANGED <<instVars, itVars>>

(***************************************************************************)
(* ExtractAgent.  A directory maps the source files it holds to "ok" or    *)
(* "bad" (extract_file raises).  extracted_data is an insertion-ordered    *)
(* mapping name -> run that read it, kept on the agent.  The per-source    *)
(* metadata_<name>.json files extract_all writes are not tracked in files. *)
(***************************************************************************)
SourceNames == {"a", "b"}
Directories == UNION {[D -> {"ok", "bad"}] : D \in SUBSET SourceNames}

\* replies of the completion call in ai_assisted_extract
ExtractReplies ==
    {[kind |-> k, files |-> {}] : k \in {"fail", "nojson", "badjson"}}
    \cup {[kind |-> "json", files |-> F] : F \in SUBSET SourceNames}

\* the order in which detect_sources lists the files
SourceOrder == <<"a", "b">>

RECURSIVE PutFrom(_, _, _, _)
PutFrom(data, S, run, i) ==
    IF i > Len(SourceOrder) THEN data
    ELSE PutFrom(IF SourceOrder[i] \in S THEN Bind(data, SourceOrder[i], run) ELSE data,
                 S, run, i + 1)

\* self.extracted_data[source_name] = df for the sources of S, in listing order
PutAll(data, S, run) == PutFrom(data, S, run, 1)

ExtractAllAbort(data, dir, run) ==
    IF \E n \in DOMAIN dir : dir[n] = "bad" THEN data
    ELSE PutAll(data, DOMAIN dir, run)

\* extract_all: every readable source is stored, the others are logged and skipped
extract_all(data, dir, run) ==
    PutAll(data, {n \in DOMAIN dir : dir[n] = "ok"}, run)

\* ai_assisted_extract: returns self.extracted_data
ai_assisted_extract(data, dir, reply, run) ==
    LET files_to_extract == IF reply.kind = "json" THEN reply.files ELSE DOMAIN dir
        selected == DOMAIN dir \cap files_to_extract
    IN  IF reply.kind \in {"fail", "badjson"} \/ \E n \in selected : dir[n] = "bad"
        THEN extract_all(data, dir, run)
        ELSE PutAll(data, selected, run)

ExtractFault(dir, reply) ==
    \/ reply.kind \in {"fail", "badjson"}
    \/ \E n \in DOMAIN dir : dir[n] = "bad"

\* a direct call of extract_all
extract_all_call ==
    /\ pc = "idle" /\ runs < MaxRuns
    /\ runs' = runs + 1
    /\ \E dir \in Directories :
        /\ extracted_data' = extract_all(extracted_data, dir, runs')
        /\ lastExec' = [op |-> "extract_all", dir |-> dir, selected |-> DOMAIN dir,
                        before |-> extracted_data, out |-> Return(extracted_data')]
    /\ pc' = "called"
    /\ UNCHANGED <<conn, warehouse, files, runVarsButPc, itVars, vizVars>>

\* a direct call of ai_assisted_extract
ai_assisted_extract_call ==
    /\ pc = "idle" /\ runs < MaxRuns
    /\ runs' = runs + 1
    /\ \E dir \in Directories, reply \in ExtractReplies :
        /\ extracted_data' = ai_assisted_extract(extracted_data, dir, reply, runs')
        /\ lastExec' = [op |-> "ai_assisted_extract", dir |-> dir,
                        selected |-> IF reply.kind = "json" THEN DOMAIN dir \cap reply.files
                                     ELSE DOMAIN dir,
                        before |-> extracted_data, out |-> Return(extracted_data')]
    /\ pc' = "called"
    /\ UNCHANGED <<conn, warehouse, files, runVarsButPc, itVars, vizVars>>

(***************************************************************************)
(* LoadAgent.  The warehouse maps the name of each stored table to its     *)
(* rows; it lives in the database file and survives a connection.  A reply *)
(* of the completion call is a failure, a text without a JSON object, a    *)
(* text whose JSON object does not parse, or a parsed object (None: the    *)
(* key is absent).                                                         *)
(***************************************************************************)
Destinations == {"duckdb", "csv", "excel", "parquet"}
TableNames == {None, "sales"}
FilePaths == {None, "results.csv"}
Modes == {None, "append"}
DestInfos ==
    [destination : Destinations \cup {"s3", None},
     table_name : TableNames, file_path : FilePaths, mode : Modes]

\* the keyword arguments a caller of load can pass
Kwargs == [table_name : TableNames, file_path : {None}, mode : Modes]
NoKwargs == [table_name |-> None, file_path |-> None, mode |-> None]

\* replies of the completion call in ai_determine_destination
LoadReplies ==
    {[kind |-> k, info |-> None] : k \in {"fail", "nojson", "badjson"}}
    \cup {[kind |-> "json", info |-> d] : d \in DestInfos}

\* replies of the completion call during a pipeline run
RunLoadReplies ==
    {r \in LoadReplies :
        r.kind = "json" => /\ r.info.destination \in {"duckdb", "csv", "s3"}
                           /\ r.info.table_name = None
                           /\ r.info.file_path = None
                           /\ r.info.mode = None}

\* the column names of a table value; a name is a sequence of characters
\* (upper and lower case letter, digit, blank, punctuation, underscore)
Columns(df) ==
    CASE df = "T1" -> << <<"A", " ", " ", "a">>, <<"-", "a", "-", "_", "1">> >>
      [] df = "T2" -> << <<"a", "_", "1">> >>
      [] OTHER -> << <<"a">> >>

\* str.lower(), then re.sub(r'[^\w\s]', '_', ...)
ReplaceSpecial(col) ==
    [j \in DOMAIN col |-> CASE col[j] = "A" -> "a"
                            [] col[j] = "-" -> "_"
                            [] OTHER -> col[j]]

\* re.sub(r'\s+', '_', ...)
RECURSIVE ReplaceSpaces(_)
ReplaceSpaces(col) ==
    IF col = <<>> THEN col
    ELSE IF Head(col) # " " THEN <<Head(col)>> \o ReplaceSpaces(Tail(col))
    ELSE IF Len(col) >= 2 /\ col[2] = " " THEN ReplaceSpaces(Tail(col))
    ELSE <<"_">> \o ReplaceSpaces(Tail(col))

\* re.sub(r'_+', '_', ...)
RECURSIVE CollapseUnderscores(_)
CollapseUnderscores(col) ==
    IF Len(col) < 2 THEN col
    ELSE IF col[1] = "_" /\ col[2] = "_" THEN CollapseUnderscores(Tail(col))
    ELSE <<Head(col)>> \o CollapseUnderscores(Tail(col))

\* str.strip('_')
RECURSIVE StripUnderscores(_)
StripUnderscores(col) ==
    IF col = <<>> THEN col
    ELSE IF Head(col) = "_" THEN StripUnderscores(Tail(col))
    ELSE IF col[Len(col)] = "_" THEN StripUnderscores(SubSeq(col, 1, Len(col) - 1))
    ELSE col

sanitize_column_name(col_name) ==
    StripUnderscores(CollapseUnderscores(ReplaceSpaces(ReplaceSpecial(col_name))))

\* df.columns = [sanitize_column_name(col) for col in df.columns]
SanitizedColumns(df) ==
    [j \in DOMAIN Columns(df) |-> sanitize_column_name(Columns(df)[j])]

\* the rows of a table value
Rows(df) ==
    CASE df = "T1" -> <<"r1">>
      [] df = "T2" -> <<"r2", "r3">>
      [] OTHER -> <<df>>

AiDestinationAsParsed(reply) ==
    CASE reply.kind = "json" -> reply.info
      [] OTHER -> [destination |-> "csv", table_name |-> None,
                   file_path |-> None, mode |-> None]

\* ai_determine_destination: the parsed reply, or a duckdb default
ai_determine_destination(reply) ==
    CASE reply.kind = "json" -> reply.info
      [] reply.kind = "nojson" ->
            [destination |-> "duckdb", table_name |-> "ai_result",
             file_path |-> None, mode |-> None]
      [] OTHER ->
            [destination |-> "duckdb", table_name |-> "result",
             file_path |-> None, mode |-> None]

\* dict.get(key, default)
GetOr(info, key, default) == IF info[key] = None THEN default ELSE info[key]

\* kwargs.update(dest_info): the keys of dest_info override those of kwargs
Update(kwargs, info) ==
    [k \in DOMAIN kwargs |-> IF info[k] # None THEN info[k] ELSE kwargs[k]]

DropTable(wh, t) == [n \in DOMAIN wh \ {t} |-> wh[n]]

\* CREATE TABLE IF NOT EXISTS t AS SELECT * FROM df
CreateIfNotExists(wh, t, df) ==
    IF t \in DOMAIN wh THEN wh ELSE (t :> Rows(df)) @@ wh

\* load_to_duckdb: connect when self.conn is None, then execute on self.conn;
\* columns: the column names of the table it has written
load_to_duckdb(c, wh, df, table_name, mode, connectOk, writeOk) ==
    LET dropped == IF mode = "replace" THEN DropTable(wh, table_name) ELSE wh
    IN  CASE c = None /\ ~connectOk ->
                [out |-> Raise("duckdb: cannot open"), conn |-> c, warehouse |-> wh,
                 columns |-> <<>>]
          [] c = "closed" ->
                [out |-> Raise("duckdb: connection closed"), conn |-> c, warehouse |-> wh,
                 columns |-> <<>>]
          [] ~writeOk ->
                [out |-> Raise("duckdb: write failed"), conn |-> "open",
                 warehouse |-> dropped, columns |-> <<>>]
          [] OTHER ->
                [out |-> Return(None), conn |-> "open",
                 warehouse |-> CreateIfNotExists(dropped, table_name, df),
                 columns |-> SanitizedColumns(df)]

DefaultFilePath(destination) ==
    CASE destination = "csv" -> "output/result.csv"
      [] destination = "excel" -> "output/result.xlsx"
      [] OTHER -> "output/result.parquet"

UnsupportedDestination == "Unsupported destination"

AlwaysAsk(destination) == TRUE

\* if destination is None
AskDestination(destination) == destination = None

\* load: resolve the destination, dispatch to the adapter
\* [out, conn, warehouse, files, adapter, aiCalls, dest_info]
load(c, wh, fs, df, explicit, kwargs, reply, connectOk, writeOk) ==
    LET ask == AskDestination(explicit)
        dest_info == IF ask THEN ai_determine_destination(reply) ELSE NoKwargs
        destination == IF ask THEN GetOr(dest_info, "destination", "duckdb") ELSE explicit
        kw == IF ask THEN Update(kwargs, dest_info) ELSE kwargs
        table_name == GetOr(kw, "table_name", "result_table")
        mode == GetOr(kw, "mode", "replace")
        file_path == GetOr(kw, "file_path", DefaultFilePath(destination))
        w == load_to_duckdb(c, wh, df, table_name, mode, connectOk, writeOk)
        base == [conn |-> c, warehouse |-> wh, files |-> fs, adapter |-> None,
                 aiCalls |-> IF ask THEN 1 ELSE 0, dest_info |-> dest_info,
                 columns |-> <<>>]
    IN  CASE destination = "duckdb" ->
                [base EXCEPT !.conn = w.conn, !.warehouse = w.warehouse,
                             !.adapter = "duckdb", !.columns = w.columns]
                @@ [out |-> IF w.out.kind = "raise" THEN w.out
                            ELSE Return(<<"duckdb:", table_name>>)]
          [] destination \in {"csv", "excel", "parquet"} ->
                [base EXCEPT !.adapter = destination,
                             !.files = IF writeOk THEN fs \cup {file_path} ELSE fs,
                             !.columns = IF writeOk THEN Columns(df) ELSE <<>>]
                @@ [out |-> IF writeOk THEN Return(<<file_path>>)
                            ELSE Raise("write failed")]
          [] OTHER ->
                base @@ [out |-> Raise(UnsupportedDestination)]

CloseNever(c) == c

\* close: closes self.conn when there is one; self.conn keeps the closed object
close(c) == IF c # None THEN "closed" ELSE c

\* destinations and table names of direct calls
ExplicitDestinations == Destinations \cup {"s3", None}
DirectTables == {"sales", "result_table"}

\* a direct call of load
load_call ==
    /\ pc = "idle" /\ runs < MaxRuns
    /\ runs' = runs + 1
    /\ \E df \in Tables, explicit \in ExplicitDestinations, kwargs \in Kwargs,
          reply \in LoadReplies, connectOk \in BOOLEAN, writeOk \in BOOLEAN :
        LET l == load(conn, warehouse, files, df, explicit, kwargs, reply, connectOk, writeOk)
        IN  /\ conn' = l.conn
            /\ warehouse' = l.warehouse
            /\ files' = l.files
            /\ lastExec' = [op |-> "load", df |-> df, explicit |-> explicit,
                            reply |-> reply.kind, dest_info |-> l.dest_info,
                            adapter |-> l.adapter, aiCalls |-> l.aiCalls,
                            columns |-> l.columns, out |-> l.out]
    /\ pc' = "called"
    /\ UNCHANGED <<extracted_data, runVarsButPc, itVars, vizVars>>

\* a direct call of load_to_duckdb
load_to_duckdb_call ==
    /\ pc = "idle" /\ runs < MaxRuns
    /\ runs' = runs + 1
    /\ \E df \in Tables, t \in DirectTables, mode \in {"replace", "append"},
          connectOk \in BOOLEAN, writeOk \in BOOLEAN :
        LET w == load_to_duckdb(conn, warehouse, df, t, mode, connectOk, writeOk)
        IN  /\ conn' = w.conn
            /\ warehouse' = w.warehouse
            /\ lastExec' = [op |-> "load_to_duckdb", df |-> df, table_name |-> t,
                            mode |-> mode, before |-> warehouse, out |-> w.out]
    /\ pc' = "called"
    /\ UNCHANGED <<extracted_data, files, runVarsButPc, itVars, vizVars>>

\* a direct call of LoadAgent.close
close_call ==
    /\ pc = "idle"
    /\ conn # close(conn)
    /\ conn' = close(conn)
    /\ lastExec' = [op |-> "close", out |-> Return(None)]
    /\ pc' = "called"
    /\ UNCHANGED <<extracted_data, warehouse, files, runs, runVarsButPc, itVars, vizVars>>

(***************************************************************************)
(* helpers.clean_code_fences.  A text is a sequence of characters; the      *)
(* fence marker, the words 'python' and 'py' and an identifier are taken as *)
(* single characters, next to the blank and the newline.                    *)
(***************************************************************************)
MaxTextLen == 4
Newline == "\n"
Blank == " "
Fence == "<fence>"
Chars == {Newline, Blank, Fence, "python", "py", "x"}
Texts == SeqsUpTo(Chars, MaxTextLen)

\* str.splitlines(): the lines of a text, without their terminators
RECURSIVE SplitLines(_)
SplitLines(text) ==
    IF text = <<>> THEN <<>>
    ELSE IF \E i \in DOMAIN text : text[i] = Newline
    THEN LET i == CHOOSE k \in DOMAIN text :
                    /\ text[k] = Newline
                    /\ \A j \in 1..(k - 1) : text[j] # Newline
         IN  <<SubSeq(text, 1, i - 1)>> \o SplitLines(SubSeq(text, i + 1, Len(text)))
    ELSE <<text>>

\* str.strip()
RECURSIVE Strip(_)
Strip(line) ==
    IF line = <<>> THEN line
    ELSE IF Head(line) = Blank THEN Strip(Tail(line))
    ELSE IF line[Len(line)] = Blank THEN Strip(SubSeq(line, 1, Len(line) - 1))
    ELSE line

\* '\n'.join(lines)
RECURSIVE Join(_)
Join(lines) ==
    IF lines = <<>> THEN <<>>
    ELSE IF Len(lines) = 1 THEN lines[1]
    ELSE lines[1] \o <<Newline>> \o Join(Tail(lines))

\* line.strip() is the fence marker, or the fence marker followed by python
IsFenceLine(line) == Strip(line) = <<Fence>> \/ Strip(line) = <<Fence, "python">>

clean_code_fences(code) ==
    Join(SelectSeq(SplitLines(code), LAMBDA line : ~IsFenceLine(line)))

\* a call of clean_code_fences
clean_code_fences_call ==
    /\ pc = "idle"
    /\ \E code \in Texts :
        lastExec' = [op |-> "clean_code_fences", code |-> code,
                     out |-> Return(clean_code_fences(code))]
    /\ pc' = "called"
    /\ UNCHANGED <<instVars, runVarsButPc, itVars, vizVars>>

(***************************************************************************)
(* The result_df enforcement of generate_transformation_code.  The code is *)
(* the sequence of its lines (code.split('\n')); a line is a sequence of   *)
(* tokens: blanks, '#', the operators '=', '==' and '+=', identifiers, a   *)
(* digit, brackets and a string literal.                                   *)
(***************************************************************************)
MaxLines == 3
Identifiers == {"x", "y", "z", "result_df", "my_result_df", "print"}
EqualsTokens == {"=", "==", "+="}
CodeLines ==
    { <<"x", " ", "=", " ", "1">>,
      <<" ", "y", " ", "=", " ", "1">>,
      <<"#", " ", "result_df">>,
      <<"#", " ", "z", " ", "=", " ", "1">>,
      <<"x", " ", "==", " ", "y">>,
      <<"result_df", " ", "=", " ", "x">>,
      <<"my_result_df", " ", "=", " ", "x">>,
      <<"y", " ", "+=", " ", "1">>,
      <<"print", "(", "'result_df'", ")">>,
      <<>> }
SanitizedCodes == SeqsUpTo(CodeLines, MaxLines)

\* 'result_df' in code
MentionsResultDf(code) ==
    \E i \in DOMAIN code : \E j \in DOMAIN code[i] :
        code[i][j] \in {"result_df", "my_result_df", "'result_df'"}

\* '=' in line
HasEquals(line) == \E j \in DOMAIN line : line[j] \in EqualsTokens

\* line.startswith('#')
StartsWithHash(line) == line # <<>> /\ Head(line) = "#"

\* line.split('=')[0]: the text before the first '=' character
BeforeEquals(line) ==
    LET j == CHOOSE k \in DOMAIN line :
                /\ line[k] \in EqualsTokens
                /\ \A m \in 1..(k - 1) : line[m] \notin EqualsTokens
    IN  SubSeq(line, 1, j - 1) \o (IF line[j] = "+=" THEN <<"+">> ELSE <<>>)

\* str.isidentifier()
IsIdentifier(name) ==
    /\ name # <<>>
    /\ Head(name) \in Identifiers
    /\ \A j \in DOMAIN name : name[j] \in Identifiers \cup {"1"}

\* the variable a line is taken to assign (<<>>: none)
VarName(line) ==
    LET l == Strip(line)
        var_name == IF HasEquals(l) /\ ~StartsWithHash(l) THEN Strip(BeforeEquals(l)) ELSE <<>>
    IN  IF IsIdentifier(var_name) THEN var_name ELSE <<>>

\* code += f"\n\n# Assign result\nresult_df = {var_name}\n"
AssignResult(code, var_name) ==
    code \o << <<>>, <<"#", " ", "Assign result">>,
               <<"result_df", " ", "=", " ">> \o var_name, <<>> >>

\* the lines are scanned from the last one; the first that assigns a variable wins
AddResultDf(code) ==
    LET found == {i \in DOMAIN code : VarName(code[i]) # <<>>}
    IN  IF MentionsResultDf(code) \/ found = {} THEN code
        ELSE AssignResult(code, VarName(code[CHOOSE i \in found : \A j \in found : j <= i]))

\* generate_transformation_code on a reply whose sanitized text is code
generate_transformation_code_call ==
    /\ pc = "idle"
    /\ \E code \in SanitizedCodes :
        lastExec' = [op |-> "generate_transformation_code", code |-> code,
                     out |-> Return(AddResultDf(code))]
    /\ pc' = "called"
    /\ UNCHANGED <<instVars, runVarsButPc, itVars, vizVars>>

(***************************************************************************)
(* ETLPipeline.run                                                         *)
(***************************************************************************)
NoArgs == [user_query |-> None, skip_transform |-> FALSE, skip_load |-> FALSE, analyze |-> FALSE]
NoResults == <<>>

WithStage(res, stage, entry) ==
    [res EXCEPT !["stages"] = (stage :> entry) @@ res["stages"]]

RunRaiseContinue(stage, e) ==
    /\ pc' = "analyze"
    /\ exc' = exc
    /\ failedStage' = failedStage

\* raise e inside run's try block
RunRaise(stage, e) ==
    /\ pc' = "except"
    /\ exc' = e
    /\ failedStage' = stage

run_call ==
    /\ pc = "idle" /\ ipc = "idle"
    /\ runs < MaxRuns
    /\ runs' = runs + 1
    /\ \E q \in RunQueries, st \in BOOLEAN, sl \in BOOLEAN, an \in BOOLEAN :
        /\ args' = [user_query |-> q, skip_transform |-> st, skip_load |-> sl, analyze |-> an]
        /\ results' = ("query" :> q) @@ ("start_time" :> "start") @@ ("stages" :> <<>>)
    /\ pc' = "extract"
    /\ envFault' = FALSE
    /\ UNCHANGED <<transformed_df, exc, failedStage, loadCalls, metadataWrites>>
    /\ UNCHANGED <<extracted_data, conn, warehouse, files, itVars, vizVars, lastExec>>

NoDataError == <<"No data extracted. Check data directory and file formats.">>

\* a stage that stops at once
NoDataNever(data) == FALSE

\* if not extracted_data
NoData(data) == data = <<>>

\* Stage 1
run_extract ==
    /\ pc = "extract"
    /\ \E dir \in Directories, reply \in ExtractReplies :
        /\ extracted_data' = ai_assisted_extract(extracted_data, dir, reply, runs)
        /\ envFault' = (envFault \/ ExtractFault(dir, reply))
    /\ IF NoData(extracted_data')
       THEN /\ RunRaise("extract", NoDataError)
            /\ UNCHANGED results
       ELSE /\ results' = WithStage(results, "extract", [status |-> "success"])
            /\ pc' = "transform"
            /\ UNCHANGED <<exc, failedStage>>
    /\ UNCHANGED <<args, transformed_df, loadCalls, metadataWrites>>
    /\ UNCHANGED <<conn, warehouse, files, runs, itVars, vizVars, lastExec>>

\* Stage 2, skip_transform: the first dataset is the result
run_transform_skipped ==
    /\ pc = "transform"
    /\ args.skip_transform
    /\ IF extracted_data = <<>>
       THEN /\ RunRaise("transform", <<"IndexError: list index out of range">>)
            /\ UNCHANGED <<transformed_df, results>>
       ELSE /\ transformed_df' = extracted_data[1].name
            /\ results' = WithStage(results, "transform", [status |-> "skipped"])
            /\ pc' = "load"
            /\ UNCHANGED <<exc, failedStage>>
    /\ UNCHANGED <<args, envFault, loadCalls, metadataWrites>>
    /\ UNCHANGED <<instVars, itVars, vizVars, lastExec>>

\* Stage 2: call iterative_transform with the default max_iterations
run_transform_call ==
    /\ pc = "transform"
    /\ ~args.skip_transform
    /\ ipc = "idle"
    /\ ItEnter("pipeline", args.user_query, DefaultMaxIterations)
    /\ pc' = "transforming"
    /\ UNCHANGED <<args, results, transformed_df, exc, failedStage, envFault, loadCalls, metadataWrites>>
    /\ UNCHANGED <<instVars, vizVars, lastExec>>

\* Stage 2: iterative_transform has returned or raised
run_transform_result ==
    /\ pc = "transforming" /\ caller = "pipeline" /\ ipc \in {"returned", "raised"}
    /\ IF ipc = "raised"
       THEN /\ RunRaise("transform", itResult)
            /\ UNCHANGED <<results, transformed_df>>
       ELSE IF ~HasShape(itResult)
       THEN /\ RunRaise("transform", <<"AttributeError: object has no attribute 'shape'">>)
            /\ transformed_df' = itResult
            /\ UNCHANGED results
       ELSE /\ transformed_df' = itResult
            /\ results' = WithStage(results, "transform", [status |-> "success"])
            /\ pc' = "load"
            /\ UNCHANGED <<exc, failedStage>>
    /\ ItLeave
    /\ UNCHANGED <<args, envFault, loadCalls, metadataWrites>>
    /\ UNCHANGED <<instVars, vizVars, lastExec>>

\* Stage 3
run_load ==
    /\ pc = "load"
    /\ IF args.skip_load
       THEN /\ results' = WithStage(results, "load", [status |-> "skipped"])
            /\ pc' = "analyze"
            /\ UNCHANGED <<conn, warehouse, files, exc, failedStage, envFault, loadCalls>>
       ELSE \E reply \in RunLoadReplies, connectOk \in BOOLEAN, writeOk \in BOOLEAN :
            LET l == load(conn, warehouse, files, transformed_df, None, NoKwargs,
                          reply, connectOk, writeOk)
            IN  /\ conn' = l.conn
                /\ warehouse' = l.warehouse
                /\ files' = l.files
                /\ loadCalls' = IF l.adapter = None THEN loadCalls
                                ELSE Append(loadCalls, l.adapter)
                /\ envFault' = (envFault \/ reply.kind # "json" \/ l.out.kind = "raise")
                /\ IF l.out.kind = "raise"
                   THEN /\ RunRaise("load", <<l.out.err>>)
                        /\ UNCHANGED results
                   ELSE /\ results' = WithStage(results, "load",
                                        [status |-> "success", destination |-> l.out.value])
                        /\ pc' = "analyze"
                        /\ UNCHANGED <<exc, failedStage>>
    /\ UNCHANGED <<args, transformed_df, metadataWrites>>
    /\ UNCHANGED <<extracted_data, runs, itVars, vizVars, lastExec>>

\* Stage 4: VisualizeAgent has no iterative_analyze, the call raises AttributeError
run_analyze ==
    /\ pc = "analyze"
    /\ IF args.analyze
       THEN /\ RunRaise("analyze",
                  <<"AttributeError: 'VisualizeAgent' object has no attribute 'iterative_analyze'">>)
            /\ UNCHANGED results
       ELSE /\ results' = WithStage(results, "analyze", [status |-> "skipped"])
            /\ pc' = "complete"
            /\ UNCHANGED <<exc, failedStage>>
    /\ UNCHANGED <<args, transformed_df, envFault, loadCalls, metadataWrites>>
    /\ UNCHANGED <<instVars, itVars, vizVars, lastExec>>

\* save_metadata: writes the document; a failing write is logged, not raised
save_metadata(fs, path, writeOk) == IF writeOk THEN fs \cup {path} ELSE fs

\* pipeline completion: end time, duration, status, save_metadata, return results
run_complete ==
    /\ pc = "complete"
    /\ results' = ("end_time" :> "end") @@ ("duration_seconds" :> "end - start")
                  @@ ("status" :> "success") @@ results
    /\ \E writeOk \in BOOLEAN : files' = save_metadata(files, MetadataPath, writeOk)
    /\ metadataWrites' = metadataWrites + 1
    /\ pc' = "finally"
    /\ UNCHANGED <<args, transformed_df, exc, failedStage, envFault, loadCalls>>
    /\ UNCHANGED <<extracted_data, conn, warehouse, runs, itVars, vizVars, lastExec>>

\* except Exception as e: status, error, end time, return results
run_except ==
    /\ pc = "except"
    /\ results' = ("status" :> "failed") @@ ("error" :> exc) @@ ("end_time" :> "end")
                  @@ results
    /\ pc' = "finally"
    /\ UNCHANGED <<args, transformed_df, exc, failedStage, envFault, loadCalls, metadataWrites>>
    /\ UNCHANGED <<instVars, itVars, vizVars, lastExec>>

\* finally: self.load_agent.close(); the caller then holds the returned record
run_finally ==
    /\ pc = "finally"
    /\ conn' = close(conn)
    /\ pc' = "done"
    /\ UNCHANGED <<args, results, transformed_df, exc, failedStage, envFault, loadCalls, metadataWrites>>
    /\ UNCHANGED <<extracted_data, warehouse, files, runs, itVars, vizVars, lastExec>>

\* the caller drops the record; the instance can be run again
run_return ==
    /\ pc = "done"
    /\ pc' = "idle"
    /\ args' = NoArgs
    /\ results' = NoResults
    /\ transformed_df' = None
    /\ exc' = None
    /\ failedStage' = None
    /\ envFault' = FALSE
    /\ loadCalls' = <<>>
    /\ metadataWrites' = 0
    /\ UNCHANGED <<instVars, itVars, vizVars, lastExec>>

(***************************************************************************)
(* Specifications.  Spec: runs of one ETLPipeline instance.  SpecRetry:    *)
(* direct calls of TransformAgent.iterative_transform, any max_iterations. *)
(* SpecExec: direct calls of the execute operations and of                 *)
(* create_visualization.  SpecExtract: direct calls of the ExtractAgent.   *)
(* SpecLoad: direct calls of the LoadAgent.  SpecSanitize: calls of        *)
(* clean_code_fences and of the result_df enforcement.                     *)
(***************************************************************************)
Init ==
    /\ extracted_data = <<>>
    /\ conn = None
    /\ warehouse = <<>>
    /\ files = {}
    /\ runs = 0
    /\ pc = "idle"
    /\ args = NoArgs
    /\ results = NoResults
    /\ transformed_df = None
    /\ exc = None
    /\ failedStage = None
    /\ envFault = FALSE
    /\ loadCalls = <<>>
    /\ metadataWrites = 0
    /\ ItIdle
    /\ vizResult = NoViz
    /\ vizAttempts = 0
    /\ lastExec = NoExec

Next ==
    \/ run_call
    \/ run_extract
    \/ run_transform_skipped
    \/ run_transform_call
    \/ run_transform_result
    \/ run_load
    \/ run_analyze
    \/ run_complete
    \/ run_except
    \/ run_finally
    \/ run_return
    \/ iterative_transform_attempt
    \/ iterative_transform_exhausted

Spec == Init /\ [][Next]_vars

NextRetry ==
    \/ iterative_transform_call
    \/ iterative_transform_attempt
    \/ iterative_transform_exhausted
    \/ iterative_transform_done

SpecRetry == Init /\ [][NextRetry]_vars

NextExec ==
    \/ execute_transformation_call
    \/ execute_visualization_call
    \/ create_visualization_call
    \/ direct_return

SpecExec == Init /\ [][NextExec]_vars

NextExtract ==
    \/ extract_all_call
    \/ ai_assisted_extract_call
    \/ direct_return

SpecExtract == Init /\ [][NextExtract]_vars

NextLoad ==
    \/ load_call
    \/ load_to_duckdb_call
    \/ close_call
    \/ direct_return

SpecLoad == Init /\ [][NextLoad]_vars

NextSanitize ==
    \/ clean_code_fences_call
    \/ generate_transformation_code_call
    \/ direct_return

SpecSanitize == Init /\ [][NextSanitize]_vars

(***************************************************************************)
(* Properties of TransformAgent.iterative_transform (SpecRetry).           *)
(***************************************************************************)
ContextPrefix == "\n\nPrevious attempt failed with error: "
ContextSuffix == ". Please fix the code."

\* the correction context of the first k failed attempts, in attempt order
RECURSIVE ErrorContext(_, _)
ErrorContext(outs, k) ==
    IF k = 0 THEN <<>>
    ELSE ErrorContext(outs, k - 1) \o <<ContextPrefix, outs[k].err, ContextSuffix>>

Failures(outs) == {i \in DOMAIN outs : outs[i].kind = "raise"}
Successes(outs) == {i \in DOMAIN outs : outs[i].kind = "return"}

\* C1: for max_iterations = N >= 1, never more than N transform calls are made,
\* and the terminal error is raised only after exactly N calls to transform (N
\* completion calls), every one of which failed.
C1_ExactlyNCycles ==
    max_iterations >= 1 =>
        /\ Len(intents) <= max_iterations
        /\ genCalls = Len(intents)
        /\ (ipc = "raised" =>
                /\ Len(intents) = max_iterations
                /\ genCalls = max_iterations
                /\ Failures(outcomes) = 1..max_iterations)

C1_Witness ==
    /\ ipc = "raised" /\ max_iterations = DefaultMaxIterations
    /\ genCalls = DefaultMaxIterations /\ execCalls = 1

\* C2: the intent handed to transform on attempt k (0-based) is the original
\* query followed by the error contexts of attempts 0..k-1, each once and in
\* attempt order; it is never reset to the original query.
C2_IntentAccumulates ==
    \A k \in DOMAIN intents :
        intents[k] = <<orig_query>> \o ErrorContext(outcomes, k - 1)

C2_Witness ==
    /\ Len(intents) = 3
    /\ outcomes[1].kind = "raise" /\ outcomes[2].kind = "raise"
    /\ outcomes[1].err # outcomes[2].err
    /\ Len(intents[3]) = 7

\* C3: iterative_transform returns the value of the first attempt that succeeds
\* and makes no further call after it: when attempt k (0-based) is the first
\* success, exactly k+1 cycles have run at the return.
C3_FirstSuccessReturned ==
    /\ \A i \in Successes(outcomes) : i = Len(outcomes) /\ ipc = "returned"
    /\ ipc = "returned" =>
        /\ Successes(outcomes) = {Len(outcomes)}
        /\ itResult = outcomes[Len(outcomes)].value
        /\ Len(outcomes) = attempt + 1
        /\ genCalls = attempt + 1

C3_Witness ==
    /\ ipc = "returned" /\ attempt = 1 /\ genCalls = 2 /\ itResult \in Tables

\* C4 (as claimed): the terminal error bundles both the original user intent and
\* the error of the last attempt.
C4_BundlesIntentAndLastError ==
    (ipc = "raised" /\ max_iterations >= 1) =>
        /\ \E i \in DOMAIN itResult : itResult[i] = orig_query
        /\ \E i \in DOMAIN itResult : itResult[i] = outcomes[Len(outcomes)].err

\* C4 (amended): when all max_iterations >= 1 attempts fail, the terminal error
\* carries the attempt count and the error of the last attempt, and not the
\* user intent.
C4_TerminalError ==
    (ipc = "raised" /\ max_iterations >= 1) =>
        /\ itResult = <<"Transformation failed after ", ToString(max_iterations),
                        " attempts. Last error: ", outcomes[Len(outcomes)].err>>
        /\ \A i \in DOMAIN itResult : itResult[i] # orig_query

C4_Witness ==
    /\ ipc = "raised" /\ max_iterations = 2
    /\ outcomes[1].err # outcomes[2].err

\* C30: for max_iterations <= 0 iterative_transform makes no cycle (no
\* completion call, no execution), never returns a value, and ends by raising
\* the terminal error with the last error None.
C30_NoCycleForNonPositive ==
    (ipc # "idle" /\ max_iterations <= 0) =>
        /\ genCalls = 0 /\ execCalls = 0
        /\ intents = <<>> /\ outcomes = <<>>
        /\ ipc \in {"loop", "raised"}
        /\ ipc = "raised" =>
                itResult = <<"Transformation failed after ", ToString(max_iterations),
                             " attempts. Last error: ", None>>

C30_Witness ==
    /\ ipc = "raised" /\ max_iterations = 0 - 1 /\ genCalls = 0
    /\ itResult = <<"Transformation failed after ", "-1", " attempts. Last error: ", "None">>

(***************************************************************************)
(* Properties of the execute operations (SpecExec).                        *)
(***************************************************************************)
\* the value a final namespace holds under result_df (None: not bound)
ExplicitBinding(ns) ==
    LET S == {i \in DOMAIN ns : ns[i].name = "result_df"}
    IN  IF S = {} THEN None ELSE ns[CHOOSE i \in S : TRUE].val

\* positions of the table-valued names that count as implicit candidates
ImplicitPositions(ns) ==
    {i \in DOMAIN ns : /\ ns[i].val \in Tables
                       /\ ns[i].name \notin {"pd", "dataframes", "_tmp", "__builtins__"}}

TransformRan == lastExec.op = "transform" /\ lastExec.code.raises = None

\* C5: result recovery has a strict precedence for every final namespace: a
\* result_df bound to a table is returned whatever other tables are bound; a
\* candidate is used only when result_df is not bound; the no-result error is
\* raised only when there is neither a binding nor a candidate.
C5_RecoveryPrecedence ==
    TransformRan =>
        LET ns == lastExec.globals
            explicit == ExplicitBinding(ns)
            out == lastExec.out
        IN  /\ explicit \in Tables => out = Return(explicit)
            /\ (explicit # None /\ out.kind = "return") => out.value = explicit
            /\ (explicit = None /\ ImplicitPositions(ns) # {}) =>
                    /\ out.kind = "return"
                    /\ \E i \in ImplicitPositions(ns) : out.value = ns[i].val
            /\ out = Raise(NoResultError) <=>
                    (explicit = None /\ ImplicitPositions(ns) = {})

C5_Witness ==
    /\ TransformRan
    /\ ExplicitBinding(lastExec.globals) = "T1"
    /\ \E i \in ImplicitPositions(lastExec.globals) :
            /\ lastExec.globals[i].name = "out"
            /\ lastExec.globals[i].val = "T2"
            /\ i = Len(lastExec.globals)
    /\ lastExec.out = Return("T1")

C7_VisualizationRetried ==
    (pc = "called" /\ vizResult.kind = "raise") => vizAttempts = DefaultMaxIterations

\* C21: a successful return of execute_transformation yields a table: a
\* result_df bound to a number, a list or a string is never returned.
C21_ReturnsTable ==
    (lastExec.op = "transform" /\ lastExec.out.kind = "return") =>
        IsTable(lastExec.out.value)

\* positions of the table-valued names other than the input mapping and the
\* names starting with an underscore
ClaimedPositions(ns) ==
    {i \in DOMAIN ns : /\ ns[i].val \in Tables
                       /\ ns[i].name # "dataframes"
                       /\ ns[i].name \notin {"_tmp", "__builtins__"}}

LastOf(S) == CHOOSE i \in S : \A j \in S : j <= i

\* C22 (as claimed): when result_df is not bound, the candidates are exactly
\* the table-valued names other than 'dataframes' and the names starting with
\* '_', and the one inserted last is returned.
C22_CandidatesAsClaimed ==
    (TransformRan /\ ExplicitBinding(lastExec.globals) = None) =>
        LET ns == lastExec.globals
            pos == ClaimedPositions(ns)
        IN  /\ pos # {} => lastExec.out = Return(ns[LastOf(pos)].val)
            /\ pos = {} => lastExec.out = Raise(NoResultError)

\* C22 (amended): when result_df is not bound, the candidates are exactly the
\* table-valued names other than 'pd', 'dataframes' and the names starting
\* with '_'; the candidate inserted last into the namespace is returned, and
\* the no-result error is raised when there is none.
C22_LastInsertedCandidate ==
    (TransformRan /\ ExplicitBinding(lastExec.globals) = None) =>
        LET ns == lastExec.globals
            pos == ImplicitPositions(ns)
        IN  /\ pos # {} => lastExec.out = Return(ns[LastOf(pos)].val)
            /\ pos = {} => lastExec.out = Raise(NoResultError)

C22_Witness ==
    /\ TransformRan
    /\ lastExec.code.stmts = <<[name |-> "df", val |-> "T1"], [name |-> "out", val |-> "T2"]>>
    /\ lastExec.out = Return("T2")

\* C23: execute_visualization returns the output path only if a file exists
\* at that path after the execution, written there or moved from the fallback
\* path.
C23_SuccessOnlyWithFile ==
    (lastExec.op = "visualize" /\ lastExec.out.kind = "return") =>
        lastExec.output_path \in files

(***************************************************************************)
(* Properties of ETLPipeline.run (Spec).                                   *)
(***************************************************************************)
Stages == {"extract", "transform", "load", "analyze"}
NoSkipFlag == ~args.skip_transform /\ ~args.skip_load /\ args.analyze
StageStatus(stage) ==
    IF stage \in DOMAIN results["stages"] THEN results["stages"][stage].status ELSE None

\* C8: when no skip flag is set, extraction, transformation and loading have
\* succeeded and no collaborator of the run has failed, run returns a record
\* with status 'success' whose extract, transform, load and analyze entries all
\* have status 'success'.
C8_AllStagesSuccess ==
    (/\ pc = "done" /\ NoSkipFlag /\ ~envFault
     /\ \A stage \in {"extract", "transform", "load"} : StageStatus(stage) = "success") =>
        /\ results["status"] = "success"
        /\ \A stage \in Stages : StageStatus(stage) = "success"

\* C9: when a stage fails, the returned record has status 'failed', a non-empty
\* error, and an entry for the failed stage with status 'failed'.
C9_FailedStageRecorded ==
    (pc = "done" /\ failedStage # None) =>
        /\ results["status"] = "failed"
        /\ "error" \in DOMAIN results /\ results["error"] # <<>>
        /\ StageStatus(failedStage) = "failed"

\* C10: run never raises on a stage failure: on the success and on the failure
\* path the returned record carries a final status, an end time and a duration.
C10_RecordHasStatusEndDuration ==
    pc = "done" =>
        /\ "status" \in DOMAIN results /\ results["status"] \in {"success", "failed"}
        /\ "end_time" \in DOMAIN results
        /\ "duration_seconds" \in DOMAIN results

\* C11: exactly one pipeline metadata document is written by the end of every
\* run, on the failure path as on the success path.
C11_OneMetadataDocumentPerRun ==
    pc = "done" => metadataWrites = 1

\* C12: when the extraction of a run returns an empty dataset mapping, the run
\* fails at once with the 'no data' error and status 'failed': no later stage
\* is entered, no stage entry is recorded, no completion call for a transform
\* and no load adapter call is made.
C12_NoDataFailsFast ==
    /\ pc \in {"transform", "transforming", "load", "analyze", "complete"} =>
            extracted_data # <<>>
    /\ (extracted_data = <<>> /\ pc \in {"except", "finally", "done"}) =>
            /\ failedStage = "extract" /\ exc = NoDataError
            /\ DOMAIN results["stages"] = {}
            /\ ipc = "idle" /\ genCalls = 0 /\ execCalls = 0
            /\ loadCalls = <<>> /\ metadataWrites = 0
    /\ (extracted_data = <<>> /\ pc = "done") =>
            /\ results["status"] = "failed"
            /\ results["error"] = NoDataError

C12_Witness ==
    /\ pc = "done" /\ extracted_data = <<>> /\ runs = 2
    /\ results["status"] = "failed" /\ results["error"] = NoDataError

\* C14: the connection of a pipeline instance is not opened at construction;
\* it is opened only by a warehouse load of a run whose load is not skipped,
\* when no connection was opened before; an open connection is closed by the
\* cleanup of the run, so that no run ends, on the success or on a failure
\* path, with the connection open.
C14_ConnectionLifecycle ==
    /\ [](runs = 0 => conn = None)
    /\ [](pc \in {"done", "idle"} => conn # "open")
    /\ [][conn' # conn =>
            \/ /\ conn = None /\ conn' = "open"
               /\ pc = "load" /\ ~args.skip_load
               /\ loadCalls' = Append(loadCalls, "duckdb")
            \/ /\ conn = "open" /\ conn' = "closed"
               /\ pc = "finally" /\ pc' = "done"]_vars

C14_Witness ==
    /\ pc = "done" /\ runs = 1
    /\ failedStage = "load" /\ loadCalls = <<"duckdb">>
    /\ conn = "closed"

\* C27: a load never runs on a closed connection: after close(), and so in a
\* second run of the same pipeline instance, the warehouse load opens a fresh
\* connection, and no load fails for a closed connection.
C27_NoLoadOnClosedConnection ==
    pc = "except" => exc # <<"duckdb: connection closed">>

InStages == pc \in {"transform", "transforming", "load", "analyze", "complete"}

\* C28: the mapping returned by ai_assisted_extract in a run, and handed to
\* the transform, holds only tables read during that run; a run that has read
\* nothing itself is a 'no data' failure even after an earlier successful run.
C28_OnlyThisRunsTables ==
    InStages => \A i \in DOMAIN extracted_data : extracted_data[i].val = runs

StageOrder == <<"extract", "transform", "load", "analyze">>
StagePrefixes == {{StageOrder[j] : j \in 1..k} : k \in 0..Len(StageOrder)}
StageIndex(stage) == CHOOSE k \in DOMAIN StageOrder : StageOrder[k] = stage

\* C29: in every state of a run the stage entries recorded form a prefix of
\* extract, transform, load, analyze, each with status 'success' or 'skipped';
\* a stage is at work only when every earlier stage has its entry, the load
\* adapter is invoked only after the transform's entry, and after a failure
\* no entry is added for the failed stage or a later one.
C29_StagesInOrder ==
    pc # "idle" =>
        LET done == DOMAIN results["stages"]
        IN  /\ done \in StagePrefixes
            /\ \A stage \in done : StageStatus(stage) \in {"success", "skipped"}
            /\ pc = "extract" => done = {}
            /\ pc \in {"transform", "transforming"} => done = {"extract"}
            /\ ipc # "idle" => (pc = "transforming" /\ done = {"extract"})
            /\ pc = "load" => done = {"extract", "transform"}
            /\ pc = "analyze" => done = {"extract", "transform", "load"}
            /\ pc = "complete" => done = Stages
            /\ loadCalls # <<>> => {"extract", "transform"} \subseteq done
            /\ failedStage # None =>
                    /\ pc \in {"except", "finally", "done"}
                    /\ done = {StageOrder[j] : j \in 1..(StageIndex(failedStage) - 1)}

C29_Witness ==
    /\ pc = "done" /\ failedStage = "load" /\ loadCalls = <<"duckdb">>
    /\ DOMAIN results["stages"] = {"extract", "transform"}
    /\ StageStatus("transform") = "skipped"

(***************************************************************************)
(* Properties of the ExtractAgent (SpecExtract).                           *)
(***************************************************************************)
ExtractCalled == lastExec.op \in {"extract_all", "ai_assisted_extract"}

\* the sources a mapping holds as read by the current call
ReadNow(data) == {data[i].name : i \in {j \in DOMAIN data : data[j].val = runs}}

\* C13: an extraction call does not raise on a source whose read fails: that
\* source is skipped, every readable source among those to extract is still
\* read, and the returned mapping is not empty (the Extract stage succeeds)
\* whenever at least one of them is readable.
C13_FailedSourceSkipped ==
    ExtractCalled =>
        LET dir == lastExec.dir
            ok == {n \in lastExec.selected : dir[n] = "ok"}
        IN  /\ lastExec.out.kind = "return"
            /\ ok \subseteq ReadNow(lastExec.out.value)
            /\ \A n \in DOMAIN dir : dir[n] = "bad" => n \notin ReadNow(lastExec.out.value)
            /\ ok # {} => ~NoData(lastExec.out.value)

C13_Witness ==
    /\ lastExec.op = "ai_assisted_extract"
    /\ lastExec.dir = ("a" :> "bad") @@ ("b" :> "ok")
    /\ lastExec.selected = {"a", "b"}
    /\ lastExec.before = <<>>
    /\ lastExec.out = Return(<<[name |-> "b", val |-> runs]>>)

(***************************************************************************)
(* Properties of the LoadAgent (SpecLoad).                                 *)
(***************************************************************************)
LoadCalled == lastExec.op = "load"

\* C15: load called with an explicit destination makes no completion call and
\* dispatches on that destination as given: the adapter of a destination of
\* the fixed set is the one invoked, and any other explicit destination is
\* rejected as unsupported, never replaced.
C15_ExplicitDestinationVerbatim ==
    (LoadCalled /\ lastExec.explicit # None) =>
        /\ lastExec.aiCalls = 0
        /\ lastExec.explicit \in Destinations => lastExec.adapter = lastExec.explicit
        /\ lastExec.explicit \notin Destinations =>
                /\ lastExec.adapter = None
                /\ lastExec.out = Raise(UnsupportedDestination)

C15_Witness ==
    /\ LoadCalled /\ lastExec.explicit = "csv" /\ lastExec.reply = "json"
    /\ lastExec.adapter = "csv" /\ lastExec.out = Return(<<"output/result.csv">>)
    /\ "output/result.csv" \in files /\ warehouse = <<>> /\ conn = None

AdapterErrors == {"duckdb: cannot open", "duckdb: connection closed", "duckdb: write failed"}

\* C16: without an explicit destination, a completion call that fails, a reply
\* without a JSON object and a reply whose JSON does not parse all resolve to
\* the duckdb destination with a default table name; the resolution does not
\* raise, and the warehouse adapter is the one invoked.
C16_MalformedReplyDefaults ==
    (LoadCalled /\ lastExec.explicit = None
                /\ lastExec.reply \in {"fail", "nojson", "badjson"}) =>
        /\ lastExec.aiCalls = 1
        /\ lastExec.dest_info.destination = "duckdb"
        /\ lastExec.dest_info.table_name =
                (IF lastExec.reply = "nojson" THEN "ai_result" ELSE "result")
        /\ lastExec.adapter = "duckdb"
        /\ lastExec.out.kind = "return" =>
                lastExec.out.value = <<"duckdb:", lastExec.dest_info.table_name>>
        /\ lastExec.out.kind = "raise" => lastExec.out.err \in AdapterErrors

C16_Witness ==
    /\ LoadCalled /\ lastExec.explicit = None /\ lastExec.reply = "badjson"
    /\ lastExec.out = Return(<<"duckdb:", "result">>)
    /\ "result" \in DOMAIN warehouse /\ conn = "open"

\* C17: when the reply parses as JSON but names a destination outside the fixed
\* set, load falls back to the warehouse destination instead of raising: the
\* resolution never aborts the load, and a destination of the fixed set is
\* always dispatched.
C17_UnsupportedFallsBack ==
    (LoadCalled /\ lastExec.explicit = None) =>
        /\ lastExec.adapter \in Destinations
        /\ lastExec.out # Raise(UnsupportedDestination)
        /\ (lastExec.reply = "json" /\ lastExec.dest_info.destination \notin Destinations) =>
                lastExec.adapter = "duckdb"

\* C18: after a load_to_duckdb call that returns, the table holds exactly the
\* rows of the call's table when the mode is 'replace', and the rows it held
\* before followed by the rows of the call's table when the mode is another one
\* and the table existed.
C18_ReplaceDropsOthersAdd ==
    (lastExec.op = "load_to_duckdb" /\ lastExec.out.kind = "return") =>
        LET t == lastExec.table_name
        IN  /\ t \in DOMAIN warehouse
            /\ lastExec.mode = "replace" => warehouse[t] = Rows(lastExec.df)
            /\ (lastExec.mode # "replace" /\ t \in DOMAIN lastExec.before) =>
                    warehouse[t] = lastExec.before[t] \o Rows(lastExec.df)

\* a storage-safe column name: lower case letters, digits and single
\* underscores, none at either end
IsSanitized(col) ==
    /\ \A j \in DOMAIN col : col[j] \in {"a", "1", "_"}
    /\ \A j \in 1..(Len(col) - 1) : ~(col[j] = "_" /\ col[j + 1] = "_")
    /\ col # <<>> => (col[1] # "_" /\ col[Len(col)] # "_")

\* C26: whatever destination load dispatches, the column names of the table
\* it writes are the sanitized names of the table it was given.
C26_ColumnsSanitizedBeforeWrite ==
    (LoadCalled /\ lastExec.out.kind = "return") =>
        /\ lastExec.columns = SanitizedColumns(lastExec.df)
        /\ \A j \in DOMAIN lastExec.columns : IsSanitized(lastExec.columns[j])

(***************************************************************************)
(* Properties of clean_code_fences (SpecSanitize).                         *)
(***************************************************************************)
LanguageTags == {"python", "py"}

\* a line that is, once trimmed, the fence marker alone or the fence marker
\* followed by a language tag
IsFenceMarkerLine(line) ==
    \/ Strip(line) = <<Fence>>
    \/ \E tag \in LanguageTags : Strip(line) = <<Fence, tag>>

Cleaned == lastExec.op = "clean_code_fences"

\* C19: clean_code_fences removes every line that is, once trimmed, a bare
\* fence marker or a fence marker followed by a language tag, whatever the
\* tag, and no other line; the lines of the result are the other lines of the
\* input, in their order and with their content.
C19_RemovesExactlyFenceLines ==
    Cleaned =>
        lastExec.out.value =
            Join(SelectSeq(SplitLines(lastExec.code), LAMBDA line : ~IsFenceMarkerLine(line)))

\* C20: clean_code_fences is idempotent: cleaning the text it returned gives
\* that text again.
C20_Idempotent ==
    Cleaned => clean_code_fences(lastExec.out.value) = lastExec.out.value

(***************************************************************************)
(* Properties of the result_df enforcement (SpecSanitize).                 *)
(***************************************************************************)
Generated == lastExec.op = "generate_transformation_code"

\* a line of the form '<identifier> = <expression>', and the identifier
IsAssignment(line) ==
    LET l == Strip(line)
    IN  /\ Len(l) >= 2 /\ l[1] \in Identifiers
        /\ \E k \in 2..Len(l) : l[k] = "=" /\ \A m \in 2..(k - 1) : l[m] = " "
Target(line) == Strip(line)[1]
TopLevel(line) == line # <<>> /\ Head(line) # " "

\* result_df is the target of an assignment of the code
BindsResultDf(code) ==
    \E i \in DOMAIN code : IsAssignment(code[i]) /\ Target(code[i]) = "result_df"

\* C24: whenever result_df is not the target of an assignment of the sanitized
\* code and the code has an assignment, a line binding result_df is appended,
\* also when the text 'result_df' occurs in a comment, in a string or inside a
\* longer identifier.
C24_EnforcedUnlessAssigned ==
    (/\ Generated /\ ~BindsResultDf(lastExec.code)
     /\ \E i \in DOMAIN lastExec.code : IsAssignment(lastExec.code[i])) =>
        /\ BindsResultDf(lastExec.out.value)
        /\ Len(lastExec.out.value) > Len(lastExec.code)

\* C25: for code without the text result_df, exactly one line 'result_df = id'
\* is appended, where id is the target of the last top-level line of the form
\* 'identifier = expression' (not a comment, a comparison or an indented
\* assignment); without such a line the code is returned unchanged.
C25_LastTopLevelAssignment ==
    (Generated /\ ~MentionsResultDf(lastExec.code)) =>
        LET code == lastExec.code
            top == {i \in DOMAIN code : TopLevel(code[i]) /\ IsAssignment(code[i])}
        IN  IF top = {} THEN lastExec.out.value = code
            ELSE lastExec.out.value = AssignResult(code, <<Target(code[LastOf(top)])>>)

====
